---- MODULE Spec2Model ----
(***************************************************************************)
(* mcp2tcp: the TCP command bridge of src/src/mcp2tcp/server.py.           *)
(*                                                                         *)
(* The module-level Config and TCPConnection objects, the tool-call        *)
(* handler handle_call_tool with TCPConnection.send_command stepped        *)
(* through its socket calls, and main() with its finally: close().         *)
(* Text is a sequence of code points, wire data a sequence of bytes.       *)
(***************************************************************************)
EXTENDS Integers, Sequences, FiniteSets, TLC

VARIABLES
    config,       \* the module global `config`: name of the file it was loaded from
    tcp,          \* the fields TCPConnection.__init__ copies from config
    socket,       \* tcp_connection.socket: 0 is None, else a socket id
    sockState,    \* per socket id: "unused", "open" or "closed"
    sockTimeout,  \* per socket id: the timeout in force on the socket
    peerEof,      \* per socket id: the peer has closed its side
    unread,       \* bytes answering an earlier command may still reach self.socket
    mainpc,       \* main(): "start", "serving", "exiting", "finished"
    exitKind,     \* how server.run ended: "none", "normal", "error", "cancelled"
    running,      \* the handler task holding the event-loop thread, 0 if none
    frame,        \* per task: position and locals of handle_call_tool / send_command
    returned,     \* the latest value a handle_call_tool call returned (or raised)
    last          \* the operation the last step performed and its socket calls

vars == <<config, tcp, socket, sockState, sockTimeout, peerEof, unread, mainpc, exitKind,
          running, frame, returned, last>>

\* ------------------------------------------------------------------ bounds

NumTasks == 2
MaxSockets == 2
MaxChunks == 2

Tasks == 1..NumTasks
SockIds == 1..MaxSockets

\* ------------------------------------------------------------- characters

CR == 13
LF == 10
SP == 32

\* str.strip() / str.rstrip() without arguments remove these code points
Whitespace == {9, 10, 11, 12, 13, 28, 29, 30, 31, 32, 133, 160}

RECURSIVE RStrip(_)
RStrip(s) ==
    IF s = <<>> THEN <<>>
    ELSE IF s[Len(s)] \in Whitespace THEN RStrip(SubSeq(s, 1, Len(s) - 1))
    ELSE s

RECURSIVE LStrip(_)
LStrip(s) ==
    IF s = <<>> THEN <<>>
    ELSE IF s[1] \in Whitespace THEN LStrip(Tail(s))
    ELSE s

Strip(s) == LStrip(RStrip(s))

\* bytes.endswith(b'\r\n')
EndsWithCRLF(b) ==
    /\ Len(b) >= 2
    /\ b[Len(b) - 1] = CR
    /\ b[Len(b)] = LF

\* the `in` operator on two strings: marker occurs somewhere in text
Contains(marker, text) ==
    \E i \in 0..(Len(text) - Len(marker)) :
        SubSeq(text, i + 1, i + Len(marker)) = marker

\* str.encode(): UTF-8 of code points below 0x800
RECURSIVE StrEncode(_)
StrEncode(s) ==
    IF s = <<>> THEN <<>>
    ELSE IF s[1] < 128 THEN <<s[1]>> \o StrEncode(Tail(s))
    ELSE <<192 + (s[1] \div 64), 128 + (s[1] % 64)>> \o StrEncode(Tail(s))

\* bytes.decode(): strict UTF-8; one- and two-byte sequences, anything else fails
RECURSIVE Utf8Valid(_)
Utf8Valid(b) ==
    IF b = <<>> THEN TRUE
    ELSE IF b[1] < 128 THEN Utf8Valid(Tail(b))
    ELSE IF /\ b[1] >= 194 /\ b[1] <= 223
            /\ Len(b) >= 2 /\ b[2] >= 128 /\ b[2] <= 191
         THEN Utf8Valid(Tail(Tail(b)))
    ELSE FALSE

RECURSIVE Utf8Decode(_)
Utf8Decode(b) ==
    IF b = <<>> THEN <<>>
    ELSE IF b[1] < 128 THEN <<b[1]>> \o Utf8Decode(Tail(b))
    ELSE <<(b[1] - 192) * 64 + (b[2] - 128)>> \o Utf8Decode(Tail(Tail(b)))

\* bytes.decode('ascii') succeeds
AsciiValid(b) == \A i \in 1..Len(b) : b[i] < 128

\* ---------------------------------------------------------------- encoding

\* A template (Command.command) is a sequence of elements: a literal code point
\* [lit |-> c] or a named replacement field [ph |-> n], n the field's name.
IsLit(e) == "lit" \in DOMAIN e

\* the template as the plain string it is in the configuration
RECURSIVE TemplateText(_)
TemplateText(tpl) ==
    IF tpl = <<>> THEN <<>>
    ELSE (IF IsLit(tpl[1]) THEN <<tpl[1].lit>>
          ELSE <<123>> \o tpl[1].ph \o <<125>>) \o TemplateText(Tail(tpl))

\* str.format(**arguments): every field needs its key, else KeyError
FormatOk(tpl, args) ==
    \A i \in 1..Len(tpl) : IsLit(tpl[i]) \/ tpl[i].ph \in DOMAIN args

RECURSIVE Format(_, _)
Format(tpl, args) ==
    IF tpl = <<>> THEN <<>>
    ELSE (IF IsLit(tpl[1]) THEN <<tpl[1].lit>> ELSE args[tpl[1].ph])
         \o Format(Tail(tpl), args)

\* variant of AsciiCommandBytes: the terminator is appended to the formatted
\* text as it stands
AsciiCommandBytesNoStrip(tpl, args) == StrEncode(Format(tpl, args) \o <<CR, LF>>)

\* cmd_str.rstrip() + '\r\n', then .encode()
AsciiCommandBytes(tpl, args) == StrEncode(RStrip(Format(tpl, args)) \o <<CR, LF>>)

\* str.replace(" ", "")
RECURSIVE RemoveSpaces(_)
RemoveSpaces(s) ==
    IF s = <<>> THEN <<>>
    ELSE IF s[1] = SP THEN RemoveSpaces(Tail(s))
    ELSE <<s[1]>> \o RemoveSpaces(Tail(s))

IsHexDigit(c) == (c >= 48 /\ c <= 57) \/ (c >= 65 /\ c <= 70) \/ (c >= 97 /\ c <= 102)

HexVal(c) == IF c <= 57 THEN c - 48 ELSE IF c <= 70 THEN c - 55 ELSE c - 87

\* bytes.fromhex accepts s: pairs of hex digits
FromHexOk(s) ==
    /\ Len(s) % 2 = 0
    /\ \A i \in 1..Len(s) : IsHexDigit(s[i])

RECURSIVE FromHex(_)
FromHex(s) ==
    IF s = <<>> THEN <<>>
    ELSE <<16 * HexVal(s[1]) + HexVal(s[2])>> \o FromHex(Tail(Tail(s)))

\* variant of Encode: a field without its key is left as written and a
\* malformed hex string gives no bytes, instead of raising
EncodeLenient(command, args) ==
    IF command.data_type = "ascii" THEN
        IF ~FormatOk(command.command, args)
        THEN [exc |-> "none", send |-> TRUE,
              bytes |-> StrEncode(RStrip(TemplateText(command.command)) \o <<CR, LF>>)]
        ELSE [exc |-> "none", send |-> TRUE,
              bytes |-> AsciiCommandBytes(command.command, args)]
    ELSE IF command.data_type = "hex" THEN
        IF ~FromHexOk(RemoveSpaces(TemplateText(command.command)))
        THEN [exc |-> "none", send |-> TRUE, bytes |-> <<>>]
        ELSE [exc |-> "none", send |-> TRUE,
              bytes |-> FromHex(RemoveSpaces(TemplateText(command.command)))]
    ELSE [exc |-> "none", send |-> FALSE, bytes |-> <<>>]

\* What lines 172-185 do before the socket is written: the bytes to send, or
\* the exception raised on the way. A data_type that is neither "ascii" nor
\* "hex" takes neither branch: nothing is encoded and nothing sent.
Encode(command, args) ==
    IF command.data_type = "ascii" THEN
        IF ~FormatOk(command.command, args)
        THEN [exc |-> "KeyError", send |-> FALSE, bytes |-> <<>>]
        ELSE IF ~AsciiValid(AsciiCommandBytes(command.command, args))
        THEN [exc |-> "UnicodeDecodeError", send |-> FALSE, bytes |-> <<>>]
        ELSE [exc |-> "none", send |-> TRUE,
              bytes |-> AsciiCommandBytes(command.command, args)]
    ELSE IF command.data_type = "hex" THEN
        IF ~FromHexOk(RemoveSpaces(TemplateText(command.command)))
        THEN [exc |-> "ValueError", send |-> FALSE, bytes |-> <<>>]
        ELSE [exc |-> "none", send |-> TRUE,
              bytes |-> FromHex(RemoveSpaces(TemplateText(command.command)))]
    ELSE [exc |-> "none", send |-> FALSE, bytes |-> <<>>]

\* ----------------------------------------------------------- configuration

\* The configuration files the process can be pointed at. "config.yaml" is the
\* file the module loads at import; main(config_name) loads <name>_config.yaml.
NoArgs == [k \in {} |-> <<>>]

ConfigFiles ==
    [default |->
        [receive_timeout |-> 1, connect_timeout |-> 3,
         response_start_string |-> <<79, 75>>,
         commands |->
            [set |-> [command |-> <<[lit |-> 80], [ph |-> <<102>>]>>,
                      need_parse |-> FALSE, data_type |-> "ascii"],
             get |-> [command |-> <<[lit |-> 86], [lit |-> SP]>>,
                      need_parse |-> TRUE, data_type |-> "ascii"],
             hex |-> [command |-> <<[lit |-> 48], [lit |-> 49], [lit |-> SP],
                                    [lit |-> 65], [lit |-> 102]>>,
                      need_parse |-> FALSE, data_type |-> "hex"]]],
     dev |->
        [receive_timeout |-> 2, connect_timeout |-> 3,
         response_start_string |-> <<79, 75>>,
         commands |->
            [set |-> [command |-> <<[lit |-> 80], [ph |-> <<102>>]>>,
                      need_parse |-> FALSE, data_type |-> "ascii"],
             get |-> [command |-> <<[lit |-> 86], [lit |-> SP]>>,
                      need_parse |-> TRUE, data_type |-> "ascii"],
             raw |-> [command |-> <<[lit |-> 86]>>,
                      need_parse |-> FALSE, data_type |-> "ASCII"],
             bad |-> [command |-> <<[lit |-> 48], [lit |-> 71]>>,
                      need_parse |-> FALSE, data_type |-> "hex"]]]]

\* main(): config_name None or "default" selects config.yaml
ConfigNames == {"default", "dev"}

\* the tool names and argument mappings a caller sends
ToolNames == {"set", "get", "hex", "raw", "bad", "nope"}
ArgumentSets == {NoArgs, [k \in {<<102>>} |-> <<49, CR, LF>>]}

\* the chunks a device delivers to one recv call
Chunks ==
    { <<79, 75, CR, LF>>,          \* "OK\r\n"
      <<SP, 79, 75, SP, 49, CR, LF>>,  \* " OK 1\r\n"
      <<69, 82, 82, CR, LF>>,      \* "ERR\r\n"
      <<79, 75>>,                  \* "OK", no terminator
      <<255, CR, LF>> }            \* not UTF-8

\* ------------------------------------------------------- results and errors

\* The texts handle_call_tool can return, by the fixed part of the message; a
\* result of kind "Raised" is an exception leaving handle_call_tool instead.
\* text is the response text a result embeds, exc/at the exception it reports.
Result(kind, text, exc, at) == [kind |-> kind, text |-> text, exc |-> exc, at |-> at]

NoResult == Result("none", <<>>, "none", "none")

TextKinds == {"ConnectFailed", "ReceiveTimeout", "NoResponse", "Success",
              "InvalidResponse", "SendTimeout", "TCPError", "UnknownTool",
              "ToolError"}

\* the exception classes the calls of send_command raise; all derive from Exception
ExceptionClasses == {"socket.timeout", "OSError", "KeyError", "ValueError",
                     "UnicodeDecodeError", "IndexError", "AttributeError"}

\* send_command's except clauses (lines 227-238), applied to an exception raised
\* inside its try block: socket.timeout first, then Exception
SendCommandExcept(exc, at) ==
    IF exc = "socket.timeout" THEN Result("SendTimeout", <<>>, exc, at)
    ELSE IF exc \in ExceptionClasses THEN Result("TCPError", <<>>, exc, at)
    ELSE Result("Raised", <<>>, exc, at)

\* handle_call_tool's except clause (lines 303-312), applied to what its try
\* block produced
HandleCallToolExcept(r) ==
    IF r.kind = "Raised" /\ r.exc \in ExceptionClasses
    THEN Result("ToolError", <<>>, r.exc, r.at)
    ELSE r

\* variant of Caught: both except clauses name only the socket errors
Narrowed(exc, at) ==
    IF exc \in {"socket.timeout", "OSError"}
    THEN HandleCallToolExcept(SendCommandExcept(exc, at))
    ELSE Result("Raised", <<>>, exc, at)

\* an exception raised at `at` inside send_command, as handle_call_tool's caller sees it
Caught(exc, at) == HandleCallToolExcept(SendCommandExcept(exc, at))

\* variant of Validate: `if not responses` is missing, responses[0] raises IndexError
ValidateNoEmptyCheck(resp, marker) ==
    IF resp = <<>> THEN Caught("IndexError", "validate")
    ELSE IF ~Utf8Valid(resp[1]) THEN Caught("UnicodeDecodeError", "decode")
    ELSE IF Contains(marker, Strip(Utf8Decode(resp[1])))
    THEN Result("Success", Strip(Utf8Decode(resp[1])), "none", "none")
    ELSE Result("InvalidResponse", Strip(Utf8Decode(resp[1])), "none", "none")

\* lines 207-225: the result built from the chunks the receive loop collected
Validate(resp, marker) ==
    IF resp = <<>> THEN Result("NoResponse", <<>>, "none", "none")
    ELSE IF ~Utf8Valid(resp[1]) THEN Caught("UnicodeDecodeError", "decode")
    ELSE IF Contains(marker, Strip(Utf8Decode(resp[1])))
    THEN Result("Success", Strip(Utf8Decode(resp[1])), "none", "none")
    ELSE Result("InvalidResponse", Strip(Utf8Decode(resp[1])), "none", "none")

\* variant of BreaksAfter: any chunk ends the loop
BreaksAfterAnyChunk(data_type, chunk) == TRUE

\* lines 194-197: the receive loop breaks after appending this chunk
BreaksAfter(data_type, chunk) ==
    \/ data_type = "ascii" /\ EndsWithCRLF(chunk)
    \/ data_type = "hex"

\* ------------------------------------------------------------------- state

\* variant of TcpFields: receive_timeout is taken as configured
TcpFieldsAsConfigured(cfg) ==
    [connect_timeout |-> cfg.connect_timeout,
     receive_timeout |-> cfg.receive_timeout,
     response_start_string |-> cfg.response_start_string]

\* TCPConnection.__init__ (lines 140-146), from the config loaded at import
TcpFields(cfg) ==
    [connect_timeout |-> cfg.connect_timeout,
     receive_timeout |-> cfg.receive_timeout * 5,
     response_start_string |-> cfg.response_start_string]

\* A handler's frame: pc is its position, the rest the locals of
\* handle_call_tool and send_command (elapsed: time spent in the receive loop,
\* loopExit: how the loop was left, firstFrom: which command the bytes of
\* responses[0] answer). The frame is gone when the handler returns.
IdleFrame ==
    [pc |-> "idle", name |-> "none", arguments |-> <<>>, command_bytes |-> <<>>,
     responses |-> <<>>, elapsed |-> 0, loopExit |-> "none", firstFrom |-> "none"]

pc == [t \in Tasks |-> frame[t].pc]
name == [t \in Tasks |-> frame[t].name]
arguments == [t \in Tasks |-> frame[t].arguments]
command_bytes == [t \in Tasks |-> frame[t].command_bytes]
responses == [t \in Tasks |-> frame[t].responses]
elapsed == [t \in Tasks |-> frame[t].elapsed]
loopExit == [t \in Tasks |-> frame[t].loopExit]
firstFrom == [t \in Tasks |-> frame[t].firstFrom]

Step(act, t, calls, raised) == [act |-> act, task |-> t, calls |-> calls, raised |-> raised]

\* module import: config = Config.load(), tcp_connection = TCPConnection()
Init ==
    /\ config = "default"
    /\ tcp = TcpFields(ConfigFiles["default"])
    /\ socket = 0
    /\ sockState = [s \in SockIds |-> "unused"]
    /\ sockTimeout = [s \in SockIds |-> 0]
    /\ peerEof = [s \in SockIds |-> FALSE]
    /\ unread = FALSE
    /\ mainpc = "start"
    /\ exitKind = "none"
    /\ running = 0
    /\ frame = [t \in Tasks |-> IdleFrame]
    /\ returned = [task |-> 0, name |-> "none", result |-> NoResult]
    /\ last = Step("import", 0, <<>>, "none")

Registry == ConfigFiles[config].commands

\* variant of Lookup: the membership test is missing
LookupUnchecked(n) == TRUE

\* `name not in config.commands` (line 286)

Lookup(n) == n \in DOMAIN Registry

\* variant of YieldsAt: the receive is awaited, the thread is given up there
YieldsAtRecv(p) == p = "recv"

\* handle_call_tool is a coroutine without an await (lines 280-312): once
\* started it keeps the event-loop thread at every position until it returns

YieldsAt(p) == FALSE

CanRun(t) == mainpc = "serving" /\ running \in {0, t}

SocketVars == <<socket, sockState, sockTimeout, peerEof, unread>>
MainVars == <<config, tcp, mainpc, exitKind>>

\* the task moves on inside the handler, with frame f
Goto(t, f) ==
    /\ frame' = [frame EXCEPT ![t] = f]
    /\ running' = IF YieldsAt(f.pc) THEN 0 ELSE t
    /\ returned' = returned

\* handle_call_tool returns r (or, for kind "Raised", raises) for tool n
Return(t, n, r) ==
    /\ frame' = [frame EXCEPT ![t] = IdleFrame]
    /\ running' = 0
    /\ returned' = [task |-> t, name |-> n, result |-> r]

\* ------------------------------------------------------- handle_call_tool

\* lines 281-301: a tool call arrives; the lookup, then into send_command
Dispatch(t, n, a) ==
    /\ mainpc = "serving"
    /\ running = 0
    /\ pc[t] = "idle"
    /\ last' = Step("call_tool", t, <<>>, "none")
    /\ IF ~Lookup(n)
       THEN Return(t, n, Result("UnknownTool", <<>>, "none", "none"))
       ELSE IF n \notin DOMAIN Registry
       THEN Return(t, n, HandleCallToolExcept(Result("Raised", <<>>, "KeyError", "lookup")))
       ELSE Goto(t, [IdleFrame EXCEPT !.pc = "connect", !.name = n,
                                      !.arguments = IF a.none THEN NoArgs ELSE a.map])
    /\ UNCHANGED <<SocketVars, MainVars>>

\* ------------------------------------------------- TCPConnection.connect

FreeIds == {s \in SockIds : sockState[s] = "unused"}

NewId == CHOOSE s \in FreeIds : \A o \in FreeIds : s <= o

\* lines 151-152: connect() closes the socket it still holds before opening one
ClosePrevious == IF socket # 0 THEN [sockState EXCEPT ![socket] = "closed"] ELSE sockState

\* variant of NeedsConnect: every invocation connects
AlwaysConnect(s) == TRUE

\* line 166: `if not self.socket`
NeedsConnect(s) == s = 0

\* lines 166-171: `if not self.socket: if not self.connect(): return ...`
ConnectStep(t) ==
    /\ CanRun(t)
    /\ pc[t] = "connect"
    /\ IF ~NeedsConnect(socket)
       THEN /\ Goto(t, [frame[t] EXCEPT !.pc = "send"])
            /\ last' = Step("connect", t, <<>>, "none")
            /\ UNCHANGED SocketVars
       ELSE \E ok \in BOOLEAN :
            /\ last' = Step("connect", t, <<"create_connection">>, "none")
            /\ IF ok
               THEN /\ FreeIds # {}
                    /\ socket' = NewId
                    /\ sockState' = [ClosePrevious EXCEPT ![NewId] = "open"]
                    /\ sockTimeout' = [sockTimeout EXCEPT ![NewId] = tcp.connect_timeout]
                    /\ peerEof' = peerEof
                    /\ unread' = FALSE
                    /\ Goto(t, [frame[t] EXCEPT !.pc = "send"])
               ELSE /\ sockState' = ClosePrevious
                    /\ UNCHANGED <<socket, sockTimeout, peerEof, unread>>
                    /\ Return(t, name[t], Result("ConnectFailed", <<>>, "none", "none"))
    /\ UNCHANGED MainVars

\* ---------------------------------------------- TCPConnection.send_command

SendOutcomes == {"ok", "OSError", "socket.timeout"}

\* lines 172-185: encode, then sendall
SendStep(t) ==
    /\ CanRun(t)
    /\ pc[t] = "send"
    /\ LET enc == Encode(Registry[name[t]], arguments[t]) IN
       IF enc.exc # "none"
       THEN /\ Return(t, name[t], Caught(enc.exc, "encode"))
            /\ last' = Step("send", t, <<>>, "none")
       ELSE IF enc.send
       THEN \E out \in SendOutcomes :
            /\ last' = Step("send", t, <<"sendall">>, "none")
            /\ IF out = "ok"
               THEN Goto(t, [frame[t] EXCEPT !.pc = "settimeout",
                                             !.command_bytes = enc.bytes])
               ELSE Return(t, name[t], Caught(out, "sendall"))
       ELSE /\ Goto(t, [frame[t] EXCEPT !.pc = "settimeout"])
            /\ last' = Step("send", t, <<>>, "none")
    /\ UNCHANGED <<SocketVars, MainVars>>

\* lines 186-187: settimeout(self.receive_timeout); responses = []
SetTimeoutStep(t) ==
    /\ CanRun(t)
    /\ pc[t] = "settimeout"
    /\ sockTimeout' = [sockTimeout EXCEPT ![socket] = tcp.receive_timeout]
    /\ Goto(t, [frame[t] EXCEPT !.pc = "recv", !.responses = <<>>, !.elapsed = 0])
    /\ last' = Step("settimeout", t, <<"settimeout">>, "none")
    /\ UNCHANGED <<socket, sockState, peerEof, unread, MainVars>>

\* how long a recv that delivers data may have blocked under timeout T
Delays(T) == {0, T - 1}

\* lines 190-193: which command the bytes recv hands to responses[0] answer.
\* The socket delivers bytes in arrival order whoever they were meant for: the
\* invocation's own command, or, when an earlier invocation left this socket
\* with its reply not read to the end, that earlier command; an invocation
\* that wrote nothing has no reply of its own.
Origins(t) ==
    IF responses[t] # <<>> THEN {frame[t].firstFrom}
    ELSE (IF command_bytes[t] # <<>> THEN {"own"} ELSE {"unsolicited"})
         \cup (IF unread THEN {"earlier"} ELSE {})

\* lines 188-205, one pass of the loop: recv(4096) delivers a chunk after d
\* time units (less than the socket's timeout), or zero bytes when the peer
\* has closed, or raises socket.timeout after the socket's timeout, or OSError.
\* The socket stays in self.socket on every exit, so a reply that comes after
\* the timeout, or the part of a reply beyond a hex command's single read, is
\* there for the next recv on it.
RecvStep(t) ==
    /\ CanRun(t)
    /\ pc[t] = "recv"
    /\ last' = Step("recv", t, <<"recv">>, "none")
    /\ \/ \E c \in Chunks, d \in Delays(sockTimeout[socket]), o \in Origins(t) :
            /\ ~peerEof[socket]
            /\ Len(responses[t]) < MaxChunks
            /\ peerEof' = peerEof
            /\ IF BreaksAfter(Registry[name[t]].data_type, c)
               THEN /\ Goto(t, [frame[t] EXCEPT !.pc = "validate",
                                                !.responses = Append(@, c),
                                                !.elapsed = 0,
                                                !.loopExit = "break",
                                                !.firstFrom = o])
                    /\ unread' = (unread \/ Registry[name[t]].data_type = "hex")
               ELSE /\ Goto(t, [frame[t] EXCEPT !.responses = Append(@, c),
                                                !.elapsed = @ + d,
                                                !.firstFrom = o])
                    /\ unread' = unread
       \/ /\ peerEof' = [peerEof EXCEPT ![socket] = TRUE]
          /\ unread' = FALSE
          /\ Goto(t, [frame[t] EXCEPT !.pc = "validate", !.elapsed = 0,
                                      !.loopExit = "eof"])
       \/ /\ ~peerEof[socket]
          /\ Return(t, name[t], Result("ReceiveTimeout", <<>>, "socket.timeout", "recv"))
          /\ peerEof' = peerEof
          /\ unread' = (unread \/ command_bytes[t] # <<>>)
       \/ /\ Return(t, name[t], Caught("OSError", "recv"))
          /\ peerEof' = peerEof
          /\ unread' = unread
    /\ UNCHANGED <<socket, sockState, sockTimeout, MainVars>>

\* lines 207-225
ValidateStep(t) ==
    /\ CanRun(t)
    /\ pc[t] = "validate"
    /\ Return(t, name[t], Validate(responses[t], tcp.response_start_string))
    /\ last' = Step("validate", t, <<>>, "none")
    /\ UNCHANGED <<SocketVars, MainVars>>

\* --------------------------------------------------- TCPConnection.close

\* variant of CloseGuard: the test is missing
CloseUnguarded(s) == TRUE

\* line 242: `if self.socket:`

CloseGuard(s) == s # 0

\* variant of Close: the reference is dropped and the socket is left open
CloseForgets(act) ==
    /\ socket' = 0
    /\ last' = Step(act, 0, <<>>, "none")
    /\ unread' = FALSE
    /\ UNCHANGED <<sockState, sockTimeout, peerEof>>

\* lines 240-245; closing through None raises AttributeError. The closed
\* socket object is dropped, and with it its timeout and its peer's state
Close(act) ==
    IF CloseGuard(socket)
    THEN IF socket = 0
         THEN /\ last' = Step(act, 0, <<>>, "AttributeError")
              /\ UNCHANGED SocketVars
         ELSE /\ sockState' = [sockState EXCEPT ![socket] = "closed"]
              /\ socket' = 0
              /\ last' = Step(act, 0, <<"close">>, "none")
              /\ unread' = FALSE
              /\ sockTimeout' = [sockTimeout EXCEPT ![socket] = 0]
              /\ peerEof' = [peerEof EXCEPT ![socket] = FALSE]
    ELSE /\ last' = Step(act, 0, <<>>, "none")
         /\ UNCHANGED SocketVars

TaskVars == <<running, frame, returned>>

\* close() called on the manager by its owner while the server is idle
ApiClose ==
    /\ mainpc = "serving"
    /\ running = 0
    /\ Close("close")
    /\ UNCHANGED <<MainVars, TaskVars>>

\* ------------------------------------------------------------------- main

\* lines 322-331: config = Config.load(config_name)
MainLoad(cn) ==
    /\ mainpc = "start"
    /\ config' = cn
    /\ mainpc' = "serving"
    /\ last' = Step("load", 0, <<>>, "none")
    /\ UNCHANGED <<tcp, exitKind, SocketVars, TaskVars>>

ExitKinds == {"normal", "error", "cancelled"}

\* lines 350-365: server.run returns, raises an Exception (logged by the except
\* clause) or is cancelled; it can only end while no handler holds the thread
MainExit(kind) ==
    /\ mainpc = "serving"
    /\ running = 0
    /\ mainpc' = "exiting"
    /\ exitKind' = kind
    /\ last' = Step("exit", 0, <<>>, "none")
    /\ UNCHANGED <<config, tcp, SocketVars, TaskVars>>

\* variant of RunsClose: close() follows the try statement instead of sitting
\* in its finally clause, so a cancellation passes it by
CloseOnlyAfterTry(kind) == kind # "cancelled"

\* lines 366-367: the close() sits in a finally clause, so every exit runs it

RunsClose(kind) == TRUE

MainTeardown ==
    /\ mainpc = "exiting"
    /\ mainpc' = "finished"
    /\ IF RunsClose(exitKind)
       THEN Close("teardown")
       ELSE /\ last' = Step("teardown", 0, <<>>, "none")
            /\ UNCHANGED SocketVars
    /\ UNCHANGED <<config, tcp, exitKind, TaskVars>>

\* ------------------------------------------------------ specifications

ArgumentInputs ==
    {[none |-> TRUE, map |-> NoArgs]} \cup {[none |-> FALSE, map |-> m] : m \in ArgumentSets}

TaskStep(t) ==
    \/ \E n \in ToolNames, a \in ArgumentInputs : Dispatch(t, n, a)
    \/ ConnectStep(t)
    \/ SendStep(t)
    \/ SetTimeoutStep(t)
    \/ RecvStep(t)
    \/ ValidateStep(t)

Next ==
    \/ \E cn \in ConfigNames : MainLoad(cn)
    \/ \E t \in Tasks : TaskStep(t)
    \/ \E k \in ExitKinds : MainExit(k)
    \/ MainTeardown

\* the program: main() serving tool calls until it is torn down
Spec == Init /\ [][Next]_vars

NextApi == Next \/ ApiClose

\* the manager's owner may also call close() between tool calls
SpecApi == Init /\ [][NextApi]_vars

\* ------------------------------------------------------------- properties

HandlerActs == {"call_tool", "connect", "send", "recv", "validate"}

\* the last step was task t's handler returning to its caller
JustReturned(t) ==
    /\ last.task = t
    /\ last.act \in HandlerActs
    /\ pc[t] = "idle"
    /\ returned.task = t

\* C1: when an invocation returns ReceiveTimeout the connection has been
\* discarded: the manager holds no socket at that moment (so the next
\* invocation has to connect afresh).
C1_TimeoutDiscardsConnection ==
    \A t \in Tasks :
        (JustReturned(t) /\ returned.result.kind = "ReceiveTimeout") => socket = 0

\* C2: when writing the command bytes fails, the invocation reports an error
\* text and the manager holds no socket when the invocation returns.
C2_SendErrorDiscardsConnection ==
    \A t \in Tasks :
        (JustReturned(t) /\ returned.result.at = "sendall")
            => /\ returned.result.kind \in {"TCPError", "SendTimeout"}
               /\ socket = 0

\* C3: whatever the command, arguments, connection state and device behaviour,
\* a tool call ends in one of the text results; no exception leaves
\* handle_call_tool.
C3_AlwaysTextResult ==
    \A t \in Tasks : JustReturned(t) => returned.result.kind \in TextKinds

\* C3 witness: a call that met an undecodable response (an exception raised
\* deep inside send_command) has returned.
C3_Witness ==
    \E t \in Tasks :
        /\ JustReturned(t)
        /\ returned.result.exc = "UnicodeDecodeError"
        /\ returned.result.at = "decode"

\* C4: on a marker-containing response the call returns the decoded response
\* text when the command's need_parse is true, and one fixed acknowledgment
\* text (the same whatever the device answered) when it is false.
C4_ParsedTextOrFixedAck ==
    [][\A t \in Tasks :
        (pc[t] = "validate" /\ pc'[t] = "idle" /\ returned'.result.kind = "Success")
            => IF Registry[name[t]].need_parse
               THEN returned'.result.text = Strip(Utf8Decode(responses[t][1]))
               ELSE (returned.result.kind = "Success"
                        /\ ~Registry[returned.name].need_parse)
                    => returned'.result.text = returned.result.text]_vars

\* the tool name of the call a "call_tool" step has just taken in
CalledName(t) == IF pc[t] = "idle" THEN returned.name ELSE name[t]

\* C5: a tool call whose name is not in the registry returns the unknown-tool
\* text at once and makes no socket call; socket and connection state stay as
\* they were, Connected or not.
C5_UnknownToolNoSocketActivity ==
    [][\A t \in Tasks :
        (last'.act = "call_tool" /\ last'.task = t
            /\ CalledName(t)' \notin DOMAIN Registry)
            => /\ pc'[t] = "idle"
               /\ returned'.task = t
               /\ returned'.result.kind = "UnknownTool"
               /\ last'.calls = <<>>
               /\ UNCHANGED SocketVars]_vars

\* C5 witness: an unknown tool was called while the manager was Connected.
C5_Witness ==
    /\ last.act = "call_tool"
    /\ returned.result.kind = "UnknownTool"
    /\ returned.name \notin DOMAIN Registry
    /\ socket # 0
    /\ sockState[socket] = "open"

\* C6: at most one tool call is anywhere between its connect and its result at
\* any time, so the socket calls of two invocations never interleave.
C6_InvocationsExclusive ==
    \A t1, t2 \in Tasks : (pc[t1] # "idle" /\ pc[t2] # "idle") => t1 = t2

\* C6 witness: after task 1's call has returned, task 2 is in the middle of the
\* receive loop with a chunk read, and nobody else is inside the handler.
C6_Witness ==
    /\ returned.task = 1
    /\ pc[2] = "recv"
    /\ responses[2] # <<>>
    /\ pc[1] = "idle"

\* C7: the receive loop has a hard deadline: a call still inside the loop has
\* spent at most the receive timeout there since receiving started.
C7_HardReceiveDeadline ==
    \A t \in Tasks : pc[t] = "recv" => elapsed[t] <= tcp.receive_timeout

\* C8: a peer that closes before sending any byte gives NoResponse; NoResponse
\* is returned only for that case (never after a timeout), and ReceiveTimeout
\* only when a recv timed out on a peer that had not closed.
C8_NoResponseVersusTimeout ==
    [][\A t \in Tasks :
        /\ (pc[t] = "validate" /\ pc'[t] = "idle"
                /\ loopExit[t] = "eof" /\ responses[t] = <<>>)
            => returned'.result.kind = "NoResponse"
        /\ (pc[t] # "idle" /\ pc'[t] = "idle" /\ returned'.result.kind = "NoResponse")
            => (pc[t] = "validate" /\ loopExit[t] = "eof" /\ responses[t] = <<>>)
        /\ (pc[t] # "idle" /\ pc'[t] = "idle" /\ returned'.result.kind = "ReceiveTimeout")
            => (pc[t] = "recv" /\ ~peerEof[socket])]_vars

\* C8 witness: a call has just returned NoResponse on a socket whose peer closed.
C8_Witness ==
    \E t \in Tasks :
        /\ JustReturned(t)
        /\ returned.result.kind = "NoResponse"
        /\ socket # 0
        /\ peerEof[socket]

\* C9: close() never faults and leaves the manager without a socket; on a
\* Connected manager it closes exactly the socket held, on a Disconnected one
\* (closed before, or never connected) it changes nothing.
C9_CloseIdempotent ==
    [][last'.act \in {"close", "teardown"}
        => /\ last'.raised = "none"
           /\ socket' = 0
           /\ IF socket = 0
              THEN last'.calls = <<>> /\ UNCHANGED SocketVars
              ELSE /\ last'.calls = <<"close">>
                   /\ sockState' = [sockState EXCEPT ![socket] = "closed"]]_vars

\* C9 witness: close() has just run on a manager that an earlier close() had
\* already disconnected.
C9_Witness ==
    /\ last = Step("close", 0, <<>>, "none")
    /\ socket = 0
    /\ \E s \in SockIds : sockState[s] = "closed"

\* C10: once main() has finished, however server.run ended, the manager holds
\* no socket and no socket the bridge opened is still open.
C10_TeardownCloses ==
    mainpc = "finished" => (socket = 0 /\ \A s \in SockIds : sockState[s] # "open")

\* C10 witness: main() has finished after a cancellation, with a socket that
\* had been opened now closed.
C10_Witness ==
    /\ mainpc = "finished"
    /\ exitKind = "cancelled"
    /\ \E s \in SockIds : sockState[s] = "closed"

\* encoding (section 4.2 of the design) fails for this command and arguments:
\* an ascii template with a field that has no key, or a hex template that is
\* not hexadecimal once its spaces are removed
EncodingFails(command, args) ==
    \/ command.data_type = "ascii" /\ ~FormatOk(command.command, args)
    \/ command.data_type = "hex"
        /\ ~FromHexOk(RemoveSpaces(TemplateText(command.command)))

\* C11: when encoding fails the invocation ends there with the error text that
\* reports the encoding exception; nothing is written to the socket and no
\* receive follows in that invocation.
C11_EncodingErrorNoSocketIo ==
    [][\A t \in Tasks :
        (pc[t] = "send" /\ last'.act = "send" /\ last'.task = t
            /\ EncodingFails(Registry[name[t]], arguments[t]))
            => /\ pc'[t] = "idle"
               /\ returned'.task = t
               /\ returned'.result.kind = "TCPError"
               /\ returned'.result.exc \in {"KeyError", "ValueError"}
               /\ returned'.result.at = "encode"
               /\ last'.calls = <<>>
               /\ UNCHANGED SocketVars]_vars

\* C11 witness: a call of the malformed hex command has just returned its
\* encoding error on a connected manager.
C11_Witness ==
    \E t \in Tasks :
        /\ JustReturned(t)
        /\ returned.name = "bad"
        /\ returned.result.exc = "ValueError"
        /\ returned.result.at = "encode"
        /\ socket # 0

\* C12: the bytes an ascii command has put on the wire end with exactly one
\* CR LF: what precedes the final CR LF ends neither with a line terminator
\* nor with any other whitespace, whatever the template or arguments carried.
C12_ExactlyOneCRLF ==
    \A t \in Tasks :
        (pc[t] \in {"settimeout", "recv", "validate"}
            /\ Registry[name[t]].data_type = "ascii")
            => /\ EndsWithCRLF(command_bytes[t])
               /\ LET body == SubSeq(command_bytes[t], 1, Len(command_bytes[t]) - 2) IN
                    body = <<>> \/ body[Len(body)] \notin Whitespace

\* C12 witness: the set command was sent with an argument that itself ends
\* with CR LF, and went out as "P1" followed by one CR LF.
C12_Witness ==
    \E t \in Tasks :
        /\ pc[t] = "recv"
        /\ name[t] = "set"
        /\ arguments[t] # NoArgs
        /\ command_bytes[t] = <<80, 49, CR, LF>>

\* the step just taken called socket.create_connection
Attempted == \E i \in DOMAIN last.calls : last.calls[i] = "create_connection"

\* C13: an invocation calls create_connection exactly when the manager holds
\* no socket as the invocation reaches its connect step, which it reaches once,
\* straight from dispatch; no other step connects. A failed attempt leaves the
\* manager without a socket and the invocation returns the connect-failure
\* text in that same step, so it neither sends nor receives.
C13_ConnectOnlyWhenDisconnected ==
    [][\A t \in Tasks :
        /\ (pc'[t] = "connect" /\ pc[t] # "connect") => pc[t] = "idle"
        /\ (last'.task = t /\ last'.act # "connect") => ~Attempted'
        /\ (pc[t] = "connect" /\ last'.task = t /\ last'.act = "connect")
            => /\ Attempted' <=> socket = 0
               /\ Len(last'.calls) <= 1
               /\ ~Attempted' => (pc'[t] = "send" /\ UNCHANGED SocketVars)
               /\ Attempted' =>
                    \/ socket' # 0 /\ sockState'[socket'] = "open" /\ pc'[t] = "send"
                    \/ /\ socket' = 0
                       /\ pc'[t] = "idle"
                       /\ returned'.task = t
                       /\ returned'.result.kind = "ConnectFailed"]_vars

\* C13 witness: an invocation has just failed its one connection attempt and
\* returned, the manager still holding no socket.
C13_Witness ==
    \E t \in Tasks :
        /\ JustReturned(t)
        /\ Attempted
        /\ returned.result.kind = "ConnectFailed"
        /\ socket = 0

\* C14: the manager owns at most one open socket: every open socket is the one
\* self.socket refers to, and until a first invocation has been dispatched no
\* socket has been created at all.
C14_AtMostOneOpenSocket ==
    /\ \A s \in SockIds : sockState[s] = "open" => s = socket
    /\ Cardinality({s \in SockIds : sockState[s] = "open"}) <= 1
    /\ (returned.task = 0 /\ \A t \in Tasks : pc[t] = "idle")
        => \A s \in SockIds : sockState[s] = "unused"

\* C14 witness: the manager has connected a second time; the socket it held
\* before is closed and the only open socket is the one it references.
C14_Witness ==
    /\ socket = 2
    /\ sockState[1] = "closed"
    /\ sockState[2] = "open"

\* C15: one pass of the receive loop that does not raise. A zero-byte read
\* leaves the loop with the chunks accumulated so far; a non-empty read is
\* appended and, for an ascii command, leaves the loop exactly when that chunk
\* ends with CR LF, and for a hex command always leaves it, so that a hex
\* command that left on data holds exactly one chunk.
C15_ReceiveLoopFraming ==
    [][\A t \in Tasks :
        (pc[t] = "recv" /\ last'.act = "recv" /\ last'.task = t
            /\ pc'[t] \in {"recv", "validate"})
            => LET dt == Registry[name[t]].data_type
                   n == Len(responses[t])
                   got == responses'[t]
               IN  \/ /\ loopExit'[t] = "eof"
                      /\ pc'[t] = "validate"
                      /\ got = responses[t]
                   \/ /\ loopExit'[t] # "eof"
                      /\ Len(got) = n + 1
                      /\ SubSeq(got, 1, n) = responses[t]
                      /\ got[n + 1] # <<>>
                      /\ dt = "ascii" =>
                            (pc'[t] = "validate" <=> EndsWithCRLF(got[n + 1]))
                      /\ dt = "hex" => (pc'[t] = "validate" /\ Len(got) = 1)]_vars

\* C15 witness: an ascii command read a chunk without CR LF, went on reading,
\* and left the loop on a second chunk that ends with CR LF.
C15_Witness ==
    \E t \in Tasks :
        /\ pc[t] = "validate"
        /\ Registry[name[t]].data_type = "ascii"
        /\ loopExit[t] = "break"
        /\ Len(responses[t]) = 2
        /\ ~EndsWithCRLF(responses[t][1])
        /\ EndsWithCRLF(responses[t][2])

\* C16: validation looks at the first chunk only. With at least one chunk
\* read, the outcome is Success exactly when the marker occurs somewhere in the
\* first chunk's text with surrounding whitespace removed, and otherwise it is
\* InvalidResponse (an undecodable first chunk included); the text returned is
\* that of the first chunk, whatever chunks followed it.
C16_FirstChunkDecides ==
    [][\A t \in Tasks :
        (pc[t] = "validate" /\ last'.act = "validate" /\ last'.task = t
            /\ responses[t] # <<>>)
            => LET first == responses[t][1]
                   ok == Utf8Valid(first)
                   text == IF ok THEN Strip(Utf8Decode(first)) ELSE <<>>
                   res == returned'.result
               IN  /\ returned'.task = t
                   /\ res.kind \in {"Success", "InvalidResponse"}
                   /\ res.kind = "Success"
                        <=> (ok /\ Contains(tcp.response_start_string, text))
                   /\ ok => res.text = text]_vars

\* C17: within one invocation send precedes receive: whatever data_type was
\* loaded for the command, recv is called only by an invocation that has
\* written its command bytes to the socket.
C17_SendBeforeReceive ==
    [][\A t \in Tasks :
        (pc[t] = "recv" /\ last'.act = "recv" /\ last'.task = t)
            => command_bytes[t] # <<>>]_vars

C20_OneLoadedConfiguration ==
    [][/\ mainpc' # "start" => tcp' = TcpFields(ConfigFiles[config'])
       /\ mainpc # "start" => (config' = config /\ tcp' = tcp)]_vars

\* C19: the first chunk an invocation validates, whose text it returns, holds
\* bytes the device sent in answer to that invocation's own command, never
\* bytes left unread on the socket by an earlier invocation.
C19_NoStaleBytesReturned ==
    [][\A t \in Tasks :
        (pc[t] = "validate" /\ last'.act = "validate" /\ last'.task = t
            /\ returned'.result.kind \in {"Success", "InvalidResponse"})
            => firstFrom[t] = "own"]_vars

====
